---------------------------- MODULE Spec2Model ----------------------------
(***************************************************************************)
(* Kimi-Auto-trader: the autonomous control loop.                          *)
(*                                                                         *)
(*   DailyDataUpdater   (src/daily_data_updater.py)  rolling-window store  *)
(*   WeeklyRetrainer    (src/weekly_retrainer.py)    retrain scheduler     *)
(*   AccuracyValidator  (src/validator.py)           rolling accuracy      *)
(*   AutonomousTradingBot (src/main.py)              the cycle             *)
(*                                                                         *)
(* The market-data source, the feature engine, the model (train, evaluate, *)
(* save, predict) and the strategy are collaborators behind a call: each   *)
(* call either returns or raises, and the model draws that outcome with \E.*)
(* Time is a tick counter; a calendar date is now \div TicksPerDay.        *)
(* Accuracies are integer percentages (0.70 is 70).                        *)
(***************************************************************************)
EXTENDS Integers, Sequences, FiniteSets, TLC

\* ------------------------------------------------------------------ bounds
MaxDate == 3          \* price-point dates are 1..MaxDate
MaxBatch == 2         \* longest fetched batch
WindowDays == 2       \* DailyDataUpdater.window_days as configured here
MaxTime == 16         \* the clock stops advancing here
MaxDataDays == 2      \* calendar days a stand-alone updater is driven through
CycleCap == 2         \* cycles run when max_cycles is None
MaxCalls == 3         \* retrain_model calls on a stand-alone retrainer
MaxRestarts == 1      \* processes (retrainers) started after the first
MaxIngestBatch == 3   \* longest batch handed to a lone merge-and-trim
MaxValidations == 2   \* validation passes on a stand-alone validator

\* -------------------------------------------------------- program constants
TicksPerDay == 2
RetrainIntervalDays == 7
threshold == 70
InitialAccuracy == 100

None == -1000         \* Python's None for nullable numbers, dates, timestamps
Corrupt == -1         \* a stored timestamp that datetime.fromisoformat rejects

\* a row of the dataset: its date and its close (the other columns follow the
\* close). Rows already on disk at the start close at 100, fetched rows at 105.
Dates == 1..MaxDate
StoredRows == [date : Dates, close : {100}]
FetchedRows == [date : Dates, close : {105}]

VARIABLES
    now,                        \* datetime.now(), in ticks
    data_file,                  \* the CSV: [exists, rows]
    update_log,                 \* data_update_log.json, one event per line
    last_update_date,           \* DailyDataUpdater.last_update_date
    retraining_log,             \* retraining_log.json, one record per line
    last_retrain_date,          \* WeeklyRetrainer.last_retrain_date
    model_performance_history,  \* WeeklyRetrainer.model_performance_history
    recent_accuracy,            \* AccuracyValidator.recent_accuracy
    performance_history,        \* AccuracyValidator.performance_history
    cycle_count,                \* AutonomousTradingBot.cycle_count
    last_daily_update,          \* AutonomousTradingBot.last_daily_update
    last_weekly_retrain,        \* AutonomousTradingBot.last_weekly_retrain
    max_cycles,                 \* run_autonomous_loop(max_cycles=...)
    pc,                         \* position in run_autonomous_loop
    stop_reason,                \* why the loop ended
    restarts,                   \* processes started after the first
    update_obs,                 \* observation of the last update_daily call
    ingest_obs,                 \* observation of a lone merge-and-trim
    sched_obs,                  \* observation of a lone should_retrain() call
    valid_obs,                  \* observation of a stand-alone validator
    obs,                        \* observations of the current cycle
    hist                        \* observations kept across cycles and restarts

vars == <<now, data_file, update_log, last_update_date, retraining_log,
          last_retrain_date, model_performance_history, recent_accuracy,
          performance_history, cycle_count, last_daily_update,
          last_weekly_retrain, max_cycles, pc, stop_reason, restarts, update_obs,
          ingest_obs, sched_obs, valid_obs, obs, hist>>

dataVars == <<data_file, update_log, last_update_date, update_obs, ingest_obs>>
retrainerVars == <<retraining_log, last_retrain_date, model_performance_history,
                   sched_obs>>
validatorVars == <<recent_accuracy, performance_history, valid_obs>>
botVars == <<cycle_count, last_daily_update, last_weekly_retrain, max_cycles,
             pc, stop_reason, restarts, obs, hist>>

\* ------------------------------------------------------------- clock
\* datetime.now().strftime('%Y-%m-%d')
Today(t) == t \div TicksPerDay

\* ------------------------------------------------------------- sequences
Last(s) == s[Len(s)]

\* DataFrame.tail(n)
Tail_n(s, n) == IF Len(s) <= n THEN s ELSE SubSeq(s, Len(s) - n + 1, Len(s))

\* DataFrame.drop_duplicates(subset=['Date'], keep='last')
RECURSIVE drop_duplicates(_)
drop_duplicates(s) ==
    IF s = << >> THEN << >>
    ELSE IF \E j \in 2..Len(s) : s[j].date = s[1].date
         THEN drop_duplicates(Tail(s))
         ELSE <<s[1]>> \o drop_duplicates(Tail(s))

\* DataFrame.sort_values('Date') (insertion into an ascending sequence)
RECURSIVE sort_values(_)
Insert(r, s) ==
    LET k == Cardinality({i \in 1..Len(s) : s[i].date <= r.date})
    IN  SubSeq(s, 1, k) \o <<r>> \o SubSeq(s, k + 1, Len(s))
sort_values(s) ==
    IF s = << >> THEN << >> ELSE Insert(s[Len(s)], sort_values(SubSeq(s, 1, Len(s) - 1)))

NoFrame == [exists |-> FALSE, rows |-> << >>]
Frame(rows) == [exists |-> TRUE, rows |-> rows]

\* ------------------------------------------------------ DailyDataUpdater
merge_new_data_keep_existing(existing_df, new_df, raises) ==
    IF ~existing_df.exists THEN new_df
    ELSE sort_values(drop_duplicates(new_df \o existing_df.rows))

\* merge_new_data(existing_df, new_df); new_df is never None at the call
\* site (update_daily returns before it). raises: pandas raised inside the
\* try block, the except branch returns existing_df.
merge_new_data(existing_df, new_df, raises) ==
    IF ~existing_df.exists THEN new_df
    ELSE IF raises THEN existing_df.rows
    ELSE sort_values(drop_duplicates(existing_df.rows \o new_df))

apply_rolling_window_one_more(df) ==
    IF Len(df) <= WindowDays THEN df ELSE Tail_n(df, WindowDays + 1)

apply_rolling_window(df) ==
    IF Len(df) <= WindowDays THEN df ELSE Tail_n(df, WindowDays)

\* save_data(df): to_csv opens the file for writing and writes the rows into
\* it; on an exception returns False. save.ok: the write completed. Otherwise
\* save.kept = None: the file could not be opened and is as it was;
\* save.kept = k: the write broke off with k rows in the truncated file.
save_data(file, df, save) ==
    IF save.ok THEN Frame(df)
    ELSE IF save.kept = None \/ save.kept >= Len(df) THEN file
    ELSE Frame(SubSeq(df, 1, save.kept))

log_update_event_rewrites(log, event, log_ok) ==
    IF log_ok THEN <<event>> ELSE log

\* log_update_event(type, details): append one line (its timestamp and type;
\* the details are left out); an I/O error is swallowed.
log_update_event(log, event, log_ok) == IF log_ok THEN Append(log, event) ELSE log

\* update_daily(): the whole call. fetched = << >> stands for a failed or
\* empty fetch. Yields the new updater state and the returned boolean.
update_daily(fetched, merge_raises, save, log_ok) ==
    LET today == Today(now)
        unchanged == [data_file |-> data_file, update_log |-> update_log,
                      last_update_date |-> last_update_date,
                      success |-> FALSE, fetched |-> FALSE, removed |-> 0,
                      save_failed |-> FALSE, batch_dates |-> {}]
    IN  IF last_update_date = today THEN unchanged
        ELSE IF fetched = << >> THEN [unchanged EXCEPT !.fetched = TRUE]
        ELSE LET merged_data == merge_new_data(data_file, fetched, merge_raises)
                 windowed_data == apply_rolling_window(merged_data)
             IN  IF save.ok
                 THEN [data_file |-> save_data(data_file, windowed_data, save),
                       update_log |-> log_update_event(update_log,
                            [type |-> "daily_update", timestamp |-> now], log_ok),
                       last_update_date |-> today,
                       success |-> TRUE, fetched |-> TRUE,
                       removed |-> Len(merged_data) - Len(windowed_data),
                       save_failed |-> FALSE,
                       batch_dates |-> {fetched[i].date : i \in 1..Len(fetched)}]
                 ELSE [unchanged EXCEPT
                          !.data_file = save_data(data_file, windowed_data, save),
                          !.fetched = TRUE, !.save_failed = TRUE]

\* ----------------------------------------------------------- inputs
RECURSIVE SeqsUpTo(_, _)
SeqsUpTo(S, n) ==
    IF n = 0 THEN {<< >>}
    ELSE LET shorter == SeqsUpTo(S, n - 1)
         IN  shorter \cup {Append(s, x) : s \in {t \in shorter : Len(t) = n - 1}, x \in S}

\* what fetch_latest_data can hand back: nothing, or 1..MaxBatch rows
Batches == SeqsUpTo(FetchedRows, MaxBatch)

\* how to_csv can end: written in full, refused at open, or broken off
SaveOutcomes ==
    {[ok |-> TRUE, kept |-> None]}
        \cup {[ok |-> FALSE, kept |-> k] : k \in {None} \cup (0..(WindowDays - 1))}

IsSortedUnique(s) == \A i \in 1..(Len(s) - 1) : s[i].date < s[i + 1].date


\* ------------------------------------------------------- WeeklyRetrainer
load_history_first_line(log) == IF log = << >> THEN None ELSE log[1].timestamp

\* _load_history(): last_retrain_date is the timestamp of the LAST line of
\* the log, whatever its status; None when the log is missing or empty.
load_history(log) == IF log = << >> THEN None ELSE Last(log).timestamp

days_since_rounded_up(last, t) == (t - last + TicksPerDay - 1) \div TicksPerDay

\* (today - last_retrain).days
days_since(last, t) == (t - last) \div TicksPerDay

should_retrain_parsed_only(last, t) ==
    IF last = None THEN TRUE
    ELSE days_since(last, t) >= RetrainIntervalDays

should_retrain_a_day_early(last, t) ==
    IF last = None THEN TRUE
    ELSE IF last < 0 THEN TRUE
    ELSE days_since(last, t) >= RetrainIntervalDays - 1

\* should_retrain(), the boolean of the returned pair; any value that is
\* neither None nor a parsable timestamp takes the except branch.
should_retrain(last, t) ==
    IF last = None THEN TRUE
    ELSE IF last < 0 THEN TRUE
    ELSE days_since(last, t) >= RetrainIntervalDays

\* should_retrain(), the reason of the returned pair (its kind; the day count
\* in the text is left out)
retrain_reason(last, t) ==
    IF last = None THEN "First retraining (no history)"
    ELSE IF last < 0 THEN "Date parsing error, forcing retrain"
    ELSE IF days_since(last, t) >= RetrainIntervalDays THEN "Weekly schedule"
    ELSE "Not yet"

RetrainRecord(status, reason, test_accuracy, improvement) ==
    [status |-> status, reason |-> reason, timestamp |-> now,
     test_accuracy |-> test_accuracy, improvement |-> improvement]

\* _log_retraining_event(result): append one line; an I/O error is swallowed.
log_retraining_event(log, result, log_ok) ==
    IF log_ok THEN Append(log, result) ELSE log

\* retrain_model(), the `skipped` and `Data preparation failed` returns: the
\* record is returned and nothing of the retrainer is assigned.
returned_early_advancing(result) ==
    [result |-> result, retraining_log |-> retraining_log,
     last_retrain_date |-> result.timestamp,
     model_performance_history |-> model_performance_history,
     prepared |-> FALSE, saved |-> FALSE]

returned_early_forgetting(result) ==
    [result |-> result, retraining_log |-> retraining_log,
     last_retrain_date |-> last_retrain_date,
     model_performance_history |-> << >>,
     prepared |-> FALSE, saved |-> FALSE]

returned_early(result) ==
    [result |-> result, retraining_log |-> retraining_log,
     last_retrain_date |-> last_retrain_date,
     model_performance_history |-> model_performance_history,
     prepared |-> FALSE, saved |-> FALSE]

\* retrain_model(): the whole call.
\*   prep     outcome of load_and_prepare_data: "ok", "insufficient" (fewer
\*            than 100 rows after feature engineering) or "error" (it raised
\*            and returned None, None, None)
\*   fit      "ok", or "raise" when train, evaluate or save raised
\*   test_acc the accuracy model.evaluate returned on the test partition
\* Yields the returned record, the new retrainer state, whether
\* load_and_prepare_data was called (prepared) and whether model.save wrote
\* a model file (saved).
retrain_model(prep, fit, test_acc, log_ok) ==
    IF ~should_retrain(last_retrain_date, now)
    THEN returned_early(RetrainRecord("skipped", "not yet", None, None))
    ELSE IF prep # "ok"
    THEN [returned_early(RetrainRecord("failed", "Data preparation failed", None, None))
             EXCEPT !.prepared = TRUE]
    ELSE IF fit # "ok"
    THEN LET error_result == RetrainRecord("failed", "exception", None, None)
         IN  [result |-> error_result,
              retraining_log |-> log_retraining_event(retraining_log, error_result, log_ok),
              last_retrain_date |-> last_retrain_date,
              model_performance_history |-> model_performance_history,
              prepared |-> TRUE, saved |-> FALSE]
    ELSE LET improvement ==
                     IF model_performance_history # << >>
                     THEN test_acc - Last(model_performance_history).test_accuracy
                     ELSE None
                 result == RetrainRecord("success", "", test_acc, improvement)
             IN  [result |-> result,
                  retraining_log |-> log_retraining_event(retraining_log, result, log_ok),
                  last_retrain_date |-> result.timestamp,
                  model_performance_history |-> Append(model_performance_history, result),
                  prepared |-> TRUE, saved |-> TRUE]

\* ----------------------------------------------------- AccuracyValidator
validate_recent_performance_zero_on_failure(sample, raises) ==
    IF raises \/ sample.n = 0
    THEN [recent_accuracy |-> 0,
          performance_history |-> performance_history, completed |-> FALSE]
    ELSE LET accuracy == (sample.correct * 100) \div sample.n
         IN  [recent_accuracy |-> accuracy,
              performance_history |-> Append(performance_history, accuracy),
              completed |-> TRUE]

\* validate_recent_performance(): sample.n rows were read, sample.correct of
\* them predicted right; raises: anything in the try block raised (a missing
\* file, a missing column, the model). n = 0 divides by zero, which is caught
\* like the rest and leaves the validator as it was.
validate_recent_performance(sample, raises) ==
    IF raises \/ sample.n = 0
    THEN [recent_accuracy |-> recent_accuracy,
          performance_history |-> performance_history, completed |-> FALSE]
    ELSE LET accuracy == (sample.correct * 100) \div sample.n
         IN  [recent_accuracy |-> accuracy,
              performance_history |-> Append(performance_history, accuracy),
              completed |-> TRUE]

needs_retraining_or_equal(accuracy) == accuracy <= threshold

needs_retraining(accuracy) == accuracy < threshold

reset_metrics_accuracy_only(accuracy, history) ==
    [recent_accuracy |-> InitialAccuracy, performance_history |-> history, resets |-> 1]

\* reset_metrics(): clears the history; recent_accuracy is not assigned.
reset_metrics(accuracy, history) ==
    [recent_accuracy |-> accuracy, performance_history |-> << >>, resets |-> 1]


\* ------------------------------------------------- AutonomousTradingBot
\* inputs of one cycle
SleepTicks == {1, RetrainIntervalDays * TicksPerDay - 1}
CycleSleepTicks == {1, RetrainIntervalDays * TicksPerDay}
CycleBatches == {<< >>, <<[date |-> MaxDate, close |-> 105]>>}
PrepOutcomes == {"ok", "insufficient", "error"}
\* in a cycle the two ways load_and_prepare_data returns nothing are not told
\* apart: both give the same 'Data preparation failed' result
CyclePrepOutcomes == {"ok", "error"}
FitOutcomes == {"ok", "raise"}
TestAccuracies == {60, 80}
CycleTestAccuracies == {80}
ValidationSampleSize == 10
Samples == {[n |-> ValidationSampleSize, correct |-> 5],
            [n |-> ValidationSampleSize, correct |-> 8],
            [n |-> 0, correct |-> 0]}
MaxCyclesChoices == {None, 0, 1}
\* a save of a cycle is written in full or refused at open (the broken-off
\* writes are explored on the stand-alone updater)
CycleSaveOutcomes == {save \in SaveOutcomes : save.kept = None}

FreshObs == [calls |-> << >>, signals |-> FALSE, resets |-> 0,
             start_accuracy |-> InitialAccuracy, error |-> FALSE,
             validated |-> FALSE, degraded |-> FALSE, update |-> "none"]

OnCycleException_propagates == [pc |-> "done", stop_reason |-> "critical_error"]

\* execute_trading_cycle: `except Exception` ends the cycle, the loop goes on
\* to the max-cycle check.
OnCycleException == [pc |-> "check_max_cycles", stop_reason |-> "none"]

\* run_autonomous_loop: `if max_cycles and self.cycle_count >= max_cycles`
max_cycles_reached(limit, count) == limit # None /\ limit # 0 /\ count >= limit

after_validation_never_heals(accuracy) == "execute_strategy"

after_validation_always_heals(accuracy) == "self_heal"

\* validate_performance: `if self.validator.needs_retraining():`
after_validation(accuracy) ==
    IF needs_retraining(accuracy) THEN "self_heal" ELSE "execute_strategy"

heal_metrics_always_resets(result, accuracy, history) ==
    reset_metrics(accuracy, history)

\* validate_performance: `if result.get('status') == 'success': reset_metrics()`
heal_metrics(result, accuracy, history) ==
    IF result.status = "success"
    THEN reset_metrics(accuracy, history)
    ELSE [recent_accuracy |-> accuracy, performance_history |-> history, resets |-> 0]


FreshValidObs == [validations |-> 0, last |-> "none", asked |-> FALSE,
                  answer |-> FALSE, rows |-> 0, correct |-> 0, completed |-> 0]
FreshSchedObs == [asked |-> FALSE, decision |-> FALSE, reason |-> "none"]
FreshIngestObs == [count |-> 0, before |-> NoFrame, batch |-> << >>,
                   raised |-> FALSE, merged |-> << >>, once |-> << >>]
FreshUpdateObs == [success |-> FALSE, written |-> FALSE, removed |-> 0,
                   save_failed |-> FALSE, unmerged |-> {}]
FreshHist == [fault_cycle |-> 0, last_success |-> None, calls |-> 0,
              all_logged |-> TRUE, prev_update |-> "none",
              write_day |-> None, day_writes |-> 0, summaries |-> 0,
              stale_signal |-> FALSE]

\* print_final_statistics(): the summary lines, counted once it is through
print_final_statistics(summaries) == summaries + 1

\* `finally: self.print_final_statistics()`. Nothing inside the finally block
\* catches a Ctrl-C that arrives while the summary lines are being written:
\* the rest of the summary is then not written and run_autonomous_loop is
\* left by the KeyboardInterrupt.
finally_block(summaries, interrupted) ==
    IF interrupted THEN summaries ELSE print_final_statistics(summaries)

\* every way the loop is left passes through the finally block
LeaveLoop(reason) ==
    /\ pc' = "done"
    /\ stop_reason' = reason
    /\ \E interrupted \in BOOLEAN :
         hist' = [hist EXCEPT !.summaries = finally_block(@, interrupted)]

daily_update_due_always(marker, today) == TRUE

\* check_daily_update: `if self.last_daily_update != today:`
daily_update_due(marker, today) == marker # today

mark_daily_update_always(success, today, marker) == today

\* check_daily_update: `if success: self.last_daily_update = today`
mark_daily_update(success, today, marker) == IF success THEN today ELSE marker

\* what the data-update step of a cycle did: update_daily() was not called,
\* returned at its own already-updated test ("skipped"), fetched nothing
\* ("no_data"), failed to save, or wrote the dataset
UpdateStep(due, r) ==
    IF ~due THEN "not_called"
    ELSE IF r.success THEN "written"
    ELSE IF r.save_failed THEN "save_failed"
    ELSE IF r.fetched THEN "no_data"
    ELSE "skipped"

\* AutonomousTradingBot(): every component is constructed afresh; only the
\* files survive from an earlier process.
Construct ==
    /\ last_update_date = None
    /\ last_retrain_date = load_history(retraining_log)
    /\ model_performance_history = << >>
    /\ recent_accuracy = InitialAccuracy
    /\ performance_history = << >>
    /\ cycle_count = 0
    /\ last_daily_update = None
    /\ last_weekly_retrain = None
    /\ stop_reason = "none"
    /\ obs = FreshObs

Init ==
    /\ now = 0
    /\ data_file = NoFrame
    /\ update_log = << >>
    /\ retraining_log = << >>
    /\ max_cycles \in MaxCyclesChoices
    /\ pc = "loop_top"
    /\ restarts = 0
    /\ update_obs = FreshUpdateObs
    /\ ingest_obs = FreshIngestObs
    /\ sched_obs = FreshSchedObs
    /\ valid_obs = FreshValidObs
    /\ hist = FreshHist
    /\ Construct

\* the observation of one update_daily call; unmerged: the fetched dates of
\* a successful call that are not older than the oldest persisted row and
\* yet are not in the persisted file
UpdateObs(r) ==
    [success |-> r.success,
     written |-> update_obs.written \/ r.success,
     removed |-> r.removed,
     save_failed |-> r.save_failed,
     unmerged |-> {d \in r.batch_dates :
                     /\ \E i \in 1..Len(r.data_file.rows) : r.data_file.rows[i].date <= d
                     /\ \A i \in 1..Len(r.data_file.rows) : r.data_file.rows[i].date # d}]

\* `while True: self.cycle_count += 1; self.execute_trading_cycle()`
BeginCycle ==
    /\ pc = "loop_top"
    /\ cycle_count < CycleCap
    /\ cycle_count' = cycle_count + 1
    /\ pc' = "check_daily_update"
    /\ obs' = [FreshObs EXCEPT !.start_accuracy = recent_accuracy]
    /\ hist' = [hist EXCEPT !.prev_update = obs.update]
    /\ UNCHANGED <<now, dataVars, retrainerVars, validatorVars, last_daily_update,
                   last_weekly_retrain, max_cycles, stop_reason, restarts>>

\* what check_daily_update's own strftime (line 68) can have read when the
\* one inside update_daily (line 208) reads t: the same date, or, when t is a
\* midnight, the date of the day that has just ended
TodayAtOrchestrator(t) ==
    IF t > 0 /\ t % TicksPerDay = 0
    THEN {Today(t) - 1, Today(t)}
    ELSE {Today(t)}

\* check_daily_update()
CheckDailyUpdate ==
    /\ pc = "check_daily_update"
    /\ \E fetched \in CycleBatches, save \in CycleSaveOutcomes,
          today \in TodayAtOrchestrator(now) :
         LET merge_raises == FALSE
             log_ok == TRUE
             r == update_daily(fetched, merge_raises, save, log_ok)
             due == daily_update_due(last_daily_update, today)
         IN  /\ IF due
                THEN /\ data_file' = r.data_file
                     /\ update_log' = r.update_log
                     /\ last_update_date' = r.last_update_date
                     /\ update_obs' = UpdateObs(r)
                     /\ ingest_obs' = ingest_obs
                     /\ last_daily_update' =
                           mark_daily_update(r.success, today, last_daily_update)
                     /\ hist' = IF r.success
                                THEN [hist EXCEPT
                                        !.write_day = Today(now),
                                        !.day_writes = IF hist.write_day = Today(now)
                                                       THEN @ + 1 ELSE 1]
                                ELSE hist
                ELSE UNCHANGED <<dataVars, last_daily_update, hist>>
             /\ obs' = [obs EXCEPT !.update = UpdateStep(due, r)]
    /\ pc' = "check_weekly_retrain"
    /\ UNCHANGED <<now, retrainerVars, validatorVars, cycle_count,
                   last_weekly_retrain, max_cycles, stop_reason, restarts>>

\* one call of retrainer.retrain_model() from `step`, with its observation
RetrainCall(step, r, prep, log_ok) ==
    /\ retraining_log' = r.retraining_log
    /\ last_retrain_date' = r.last_retrain_date
    /\ model_performance_history' = r.model_performance_history
    /\ sched_obs' = sched_obs
    /\ hist' = [hist EXCEPT
                  !.calls = IF step = "main" THEN @ + 1 ELSE @,
                  !.all_logged = @ /\ (log_ok \/ ~r.prepared \/ prep # "ok"),
                  !.last_success = IF r.result.status = "success"
                                   THEN r.result.timestamp ELSE @,
                  !.stale_signal = IF step = "self_heal" /\ r.result.status = "success"
                                   THEN TRUE ELSE @]

CallObs(step, r, prep) ==
    [step |-> step, status |-> r.result.status, prepared |-> r.prepared,
     prep |-> IF r.prepared THEN prep ELSE "none",
     reason |-> r.result.reason, saved |-> r.saved,
     gate |-> should_retrain(last_retrain_date, now),
     after_signals |-> obs.signals]

\* check_weekly_retrain()
CheckWeeklyRetrain ==
    /\ pc = "check_weekly_retrain"
    /\ IF should_retrain(last_retrain_date, now)
       THEN \E prep \in CyclePrepOutcomes, fit \in FitOutcomes,
               test_acc \in CycleTestAccuracies :
              LET r == retrain_model(prep, fit, test_acc, TRUE)
              IN  /\ RetrainCall("weekly", r, prep, TRUE)
                  /\ obs' = [obs EXCEPT !.calls = Append(@, CallObs("weekly", r, prep))]
                  /\ last_weekly_retrain' =
                        IF r.result.status = "success" THEN Today(now)
                        ELSE last_weekly_retrain
       ELSE UNCHANGED <<retrainerVars, obs, hist, last_weekly_retrain>>
    /\ pc' = "validate_performance"
    /\ UNCHANGED <<now, dataVars, validatorVars, cycle_count, last_daily_update,
                   max_cycles, stop_reason, restarts>>

\* validate_performance(), first half: validate_recent_performance() and the
\* needs_retraining() test
ValidatePerformance ==
    /\ pc = "validate_performance"
    /\ \E sample \in Samples, raises \in BOOLEAN :
         LET v == validate_recent_performance(sample, raises)
         IN  /\ recent_accuracy' = v.recent_accuracy
             /\ performance_history' = v.performance_history
             /\ valid_obs' = valid_obs
             /\ pc' = after_validation(v.recent_accuracy)
             /\ obs' = [obs EXCEPT !.validated = TRUE,
                                   !.degraded = needs_retraining(v.recent_accuracy)]
             /\ hist' = [hist EXCEPT !.stale_signal = @ /\ ~v.completed]
    /\ UNCHANGED <<now, dataVars, retrainerVars, cycle_count, last_daily_update,
                   last_weekly_retrain, max_cycles, stop_reason, restarts>>

\* validate_performance(), second half: the self-healing retrain
SelfHealRetrain ==
    /\ pc = "self_heal"
    /\ \E prep \in CyclePrepOutcomes, fit \in FitOutcomes,
          test_acc \in CycleTestAccuracies :
         LET r == retrain_model(prep, fit, test_acc, TRUE)
             m == heal_metrics(r.result, recent_accuracy, performance_history)
         IN  /\ RetrainCall("self_heal", r, prep, TRUE)
             /\ recent_accuracy' = m.recent_accuracy
             /\ performance_history' = m.performance_history
             /\ valid_obs' = valid_obs
             /\ obs' = [obs EXCEPT !.calls = Append(@, CallObs("self_heal", r, prep)),
                                   !.resets = @ + m.resets]
    /\ pc' = "execute_strategy"
    /\ UNCHANGED <<now, dataVars, cycle_count, last_daily_update,
                   last_weekly_retrain, max_cycles, stop_reason, restarts>>

\* an exception caught by execute_trading_cycle's `except Exception`
CycleException ==
    /\ pc' = OnCycleException.pc
    /\ stop_reason' = OnCycleException.stop_reason
    /\ hist' = [hist EXCEPT !.fault_cycle = cycle_count]

\* strategy.execute_strategy(): returns None (no signal is ever counted) or raises
ExecuteStrategy ==
    /\ pc = "execute_strategy"
    /\ \/ /\ pc' = "check_max_cycles"
          /\ obs' = [obs EXCEPT !.signals = TRUE]
          /\ UNCHANGED <<stop_reason, hist>>
       \/ /\ CycleException
          /\ obs' = [obs EXCEPT !.signals = TRUE, !.error = TRUE]
    /\ UNCHANGED <<now, dataVars, retrainerVars, validatorVars, cycle_count,
                   last_daily_update, last_weekly_retrain, max_cycles, restarts>>

\* an exception raised by one of the earlier steps of the cycle
StepRaises ==
    /\ pc \in {"check_daily_update", "check_weekly_retrain",
               "validate_performance", "self_heal"}
    /\ CycleException
    /\ obs' = [obs EXCEPT !.error = TRUE]
    /\ UNCHANGED <<now, dataVars, retrainerVars, validatorVars, cycle_count,
                   last_daily_update, last_weekly_retrain, max_cycles, restarts>>

\* `if max_cycles and self.cycle_count >= max_cycles: break`, then finally
CheckMaxCycles ==
    /\ pc = "check_max_cycles"
    /\ IF max_cycles_reached(max_cycles, cycle_count)
       THEN LeaveLoop("max_cycles")
       ELSE pc' = "sleep" /\ UNCHANGED <<stop_reason, hist>>
    /\ UNCHANGED <<now, dataVars, retrainerVars, validatorVars, cycle_count,
                   last_daily_update, last_weekly_retrain, max_cycles, restarts,
                   obs>>

\* time.sleep(interval_seconds) returns
Sleep ==
    /\ pc = "sleep"
    /\ \E d \in CycleSleepTicks : now + d <= MaxTime /\ now' = now + d
    /\ pc' = "loop_top"
    /\ UNCHANGED <<dataVars, retrainerVars, validatorVars, cycle_count,
                   last_daily_update, last_weekly_retrain, max_cycles,
                   stop_reason, restarts, obs, hist>>

\* time.sleep raises: `except Exception` of run_autonomous_loop, then finally
SleepRaises ==
    /\ pc = "sleep"
    /\ LeaveLoop("critical_error")
    /\ UNCHANGED <<now, dataVars, retrainerVars, validatorVars, cycle_count,
                   last_daily_update, last_weekly_retrain, max_cycles, restarts,
                   obs>>

\* Ctrl-C: `except KeyboardInterrupt`, then finally
KeyboardInterrupt ==
    /\ pc \in {"loop_top", "check_daily_update", "check_weekly_retrain",
               "validate_performance", "self_heal", "execute_strategy",
               "check_max_cycles", "sleep"}
    /\ LeaveLoop("interrupt")
    /\ UNCHANGED <<now, dataVars, retrainerVars, validatorVars, cycle_count,
                   last_daily_update, last_weekly_retrain, max_cycles, restarts,
                   obs>>

\* main() again after the loop ended at its cycle limit: every component is
\* constructed afresh over the files the earlier process left.
Restart ==
    /\ pc = "done"
    /\ stop_reason = "max_cycles"
    /\ restarts < MaxRestarts
    /\ restarts' = restarts + 1
    /\ pc' = "loop_top"
    /\ last_update_date' = None
    /\ last_retrain_date' = load_history(retraining_log)
    /\ model_performance_history' = << >>
    /\ recent_accuracy' = InitialAccuracy
    /\ performance_history' = << >>
    /\ cycle_count' = 0
    /\ last_daily_update' = None
    /\ last_weekly_retrain' = None
    /\ stop_reason' = "none"
    /\ obs' = FreshObs
    /\ hist' = [hist EXCEPT !.fault_cycle = 0, !.prev_update = "none",
                             !.write_day = None, !.day_writes = 0,
                             !.summaries = 0, !.stale_signal = FALSE]
    /\ UNCHANGED <<now, data_file, update_log, update_obs, ingest_obs,
                   retraining_log, sched_obs, valid_obs, max_cycles>>

Next ==
    \/ Restart
    \/ BeginCycle
    \/ CheckDailyUpdate
    \/ CheckWeeklyRetrain
    \/ ValidatePerformance
    \/ SelfHealRetrain
    \/ ExecuteStrategy
    \/ StepRaises
    \/ CheckMaxCycles
    \/ Sleep
    \/ SleepRaises
    \/ KeyboardInterrupt

Spec == Init /\ [][Next]_vars


\* ------------------------------------------- a stand-alone DailyDataUpdater
\* (the __main__ block of daily_data_updater.py: update_daily() called on a
\* dataset that is already on disk, or on none)
InitialDatasets ==
    {NoFrame} \cup {Frame(s) : s \in {t \in SeqsUpTo(StoredRows, WindowDays + 1) :
                                         IsSortedUnique(t)}}

InitData ==
    /\ now = 0
    /\ data_file \in InitialDatasets
    /\ update_log = << >>
    /\ retraining_log = << >>
    /\ max_cycles = None
    /\ pc = "updater"
    /\ restarts = 0
    /\ update_obs = FreshUpdateObs
    /\ ingest_obs = FreshIngestObs
    /\ sched_obs = FreshSchedObs
    /\ valid_obs = FreshValidObs
    /\ hist = FreshHist
    /\ Construct

UpdateDailyCall ==
    /\ pc = "updater"
    /\ \E c \in {[r |-> r, update_obs |-> UpdateObs(r)] :
                    r \in {update_daily(fetched, merge_raises, save, log_ok) :
                              fetched \in Batches, merge_raises \in BOOLEAN,
                              save \in SaveOutcomes, log_ok \in BOOLEAN}} :
         /\ data_file' = c.r.data_file
         /\ update_log' = c.r.update_log
         /\ last_update_date' = c.r.last_update_date
         /\ update_obs' = c.update_obs
    /\ UNCHANGED <<now, ingest_obs, retrainerVars, validatorVars, botVars>>

\* the next calendar day begins
NextDay ==
    /\ pc = "updater"
    /\ Today(now) + 1 < MaxDataDays
    /\ now' = now + TicksPerDay
    /\ UNCHANGED <<dataVars, retrainerVars, validatorVars, botVars>>

NextData == UpdateDailyCall \/ NextDay

SpecData == InitData /\ [][NextData]_vars

\* ------------------------------------------------- a lone merge-and-trim
\* (merge_new_data and apply_rolling_window as update_daily chains them, on a
\* dataset that is on disk or on none, and then once more with the same batch)
IngestBatches == SeqsUpTo(FetchedRows, MaxIngestBatch) \ {<< >>}

InitIngest ==
    /\ now = 0
    /\ data_file \in InitialDatasets
    /\ update_log = << >>
    /\ retraining_log = << >>
    /\ max_cycles = None
    /\ pc = "ingest"
    /\ restarts = 0
    /\ update_obs = FreshUpdateObs
    /\ ingest_obs = FreshIngestObs
    /\ sched_obs = FreshSchedObs
    /\ valid_obs = FreshValidObs
    /\ hist = FreshHist
    /\ Construct

\* the first merge and trim of a batch; the window is written back
IngestCall ==
    /\ pc = "ingest"
    /\ ingest_obs.count = 0
    /\ \E batch \in IngestBatches, raises \in BOOLEAN :
         LET merged_data == merge_new_data(data_file, batch, raises)
             windowed_data == apply_rolling_window(merged_data)
         IN  /\ data_file' = Frame(windowed_data)
             /\ ingest_obs' = [count |-> 1, before |-> data_file, batch |-> batch,
                               raised |-> raises /\ data_file.exists,
                               merged |-> merged_data, once |-> windowed_data]
    /\ UNCHANGED <<now, update_log, last_update_date, update_obs, retrainerVars,
                   validatorVars, botVars>>

\* the same batch merged and trimmed again over the window just written
IngestAgain ==
    /\ pc = "ingest"
    /\ ingest_obs.count = 1
    /\ data_file' = Frame(apply_rolling_window(
                             merge_new_data(data_file, ingest_obs.batch, FALSE)))
    /\ ingest_obs' = [ingest_obs EXCEPT !.count = 2]
    /\ UNCHANGED <<now, update_log, last_update_date, update_obs, retrainerVars,
                   validatorVars, botVars>>

NextIngest == IngestCall \/ IngestAgain

SpecIngest == InitIngest /\ [][NextIngest]_vars

\* --------------------------------------------- a stand-alone AccuracyValidator
\* (an AccuracyValidator as constructed, its three methods called in any
\* order; a sample is the tail(10) of the data: ten rows, or none)
ShortDatasetRows == 4
ValidatorSamples ==
    {[n |-> ValidationSampleSize, correct |-> c] : c \in 0..ValidationSampleSize}
        \cup {[n |-> ShortDatasetRows, correct |-> c] : c \in 0..ShortDatasetRows}
        \cup {[n |-> 0, correct |-> 0]}

InitValidator ==
    /\ now = 0
    /\ data_file = NoFrame
    /\ update_log = << >>
    /\ retraining_log = << >>
    /\ max_cycles = None
    /\ pc = "validator"
    /\ restarts = 0
    /\ update_obs = FreshUpdateObs
    /\ ingest_obs = FreshIngestObs
    /\ sched_obs = FreshSchedObs
    /\ valid_obs = FreshValidObs
    /\ hist = FreshHist
    /\ Construct

ValidateCall ==
    /\ pc = "validator"
    /\ valid_obs.validations < MaxValidations
    /\ \E sample \in ValidatorSamples, raises \in BOOLEAN :
         LET v == validate_recent_performance(sample, raises)
         IN  /\ recent_accuracy' = v.recent_accuracy
             /\ performance_history' = v.performance_history
             /\ valid_obs' = [validations |-> valid_obs.validations + 1,
                              last |-> IF v.completed THEN "completed" ELSE "failed",
                              asked |-> FALSE, answer |-> FALSE,
                              rows |-> IF v.completed THEN sample.n ELSE 0,
                              correct |-> IF v.completed THEN sample.correct ELSE 0,
                              completed |-> IF v.completed
                                            THEN valid_obs.completed + 1
                                            ELSE valid_obs.completed]
    /\ UNCHANGED <<now, dataVars, retrainerVars, botVars>>

NeedsRetrainingCall ==
    /\ pc = "validator"
    /\ valid_obs' = [valid_obs EXCEPT !.asked = TRUE,
                                      !.answer = needs_retraining(recent_accuracy)]
    /\ UNCHANGED <<now, dataVars, retrainerVars, recent_accuracy,
                   performance_history, botVars>>

ResetMetricsCall ==
    /\ pc = "validator"
    /\ LET m == reset_metrics(recent_accuracy, performance_history)
       IN  /\ recent_accuracy' = m.recent_accuracy
           /\ performance_history' = m.performance_history
    /\ valid_obs' = [valid_obs EXCEPT !.last = "none", !.asked = FALSE,
                                      !.answer = FALSE, !.rows = 0,
                                      !.correct = 0, !.completed = 0]
    /\ UNCHANGED <<now, dataVars, retrainerVars, botVars>>

NextValidator == ValidateCall \/ NeedsRetrainingCall \/ ResetMetricsCall

SpecValidator == InitValidator /\ [][NextValidator]_vars

\* ------------------------------------------------ a lone should_retrain()
\* (a WeeklyRetrainer constructed over a log an earlier process left, asked
\* whether a retrain is due)
StoredTimestamps == {Corrupt} \cup (0..MaxTime)
StoredRecord(ts) ==
    [status |-> "success", reason |-> "", timestamp |-> ts,
     test_accuracy |-> 80, improvement |-> None]

InitScheduler ==
    /\ now \in 0..MaxTime
    /\ retraining_log \in {<< >>} \cup {<<StoredRecord(ts)>> :
                                           ts \in {x \in StoredTimestamps : x <= now}}
    /\ data_file = NoFrame
    /\ update_log = << >>
    /\ max_cycles = None
    /\ pc = "scheduler"
    /\ restarts = 0
    /\ update_obs = FreshUpdateObs
    /\ ingest_obs = FreshIngestObs
    /\ sched_obs = FreshSchedObs
    /\ valid_obs = FreshValidObs
    /\ hist = FreshHist
    /\ Construct

ShouldRetrainCall ==
    /\ pc = "scheduler"
    /\ sched_obs' = [asked |-> TRUE,
                     decision |-> should_retrain(last_retrain_date, now),
                     reason |-> retrain_reason(last_retrain_date, now)]
    /\ UNCHANGED <<now, dataVars, retraining_log, last_retrain_date,
                   model_performance_history, validatorVars, botVars>>

\* a tick of the clock passes before the next call
SchedulerTick ==
    /\ pc = "scheduler"
    /\ now < MaxTime
    /\ now' = now + 1
    /\ sched_obs' = FreshSchedObs
    /\ UNCHANGED <<dataVars, retraining_log, last_retrain_date,
                   model_performance_history, validatorVars, botVars>>

NextScheduler == ShouldRetrainCall \/ SchedulerTick

SpecScheduler == InitScheduler /\ [][NextScheduler]_vars

\* --------------------------------------------- a stand-alone WeeklyRetrainer
\* (the __main__ block of weekly_retrainer.py: retrain_model() called on a
\* retrainer, and a new retrainer constructed over the same log)
InitRetrainer ==
    /\ now = 0
    /\ data_file = NoFrame
    /\ update_log = << >>
    /\ retraining_log = << >>
    /\ max_cycles = None
    /\ pc = "retrainer"
    /\ restarts = 0
    /\ update_obs = FreshUpdateObs
    /\ ingest_obs = FreshIngestObs
    /\ sched_obs = FreshSchedObs
    /\ valid_obs = FreshValidObs
    /\ hist = FreshHist
    /\ Construct

RetrainModelCall ==
    /\ pc = "retrainer"
    /\ hist.calls < MaxCalls
    /\ \E prep \in PrepOutcomes, fit \in FitOutcomes,
          test_acc \in TestAccuracies, log_ok \in BOOLEAN :
         LET r == retrain_model(prep, fit, test_acc, log_ok)
         IN  /\ RetrainCall("main", r, prep, log_ok)
             /\ obs' = [obs EXCEPT !.calls = <<CallObs("main", r, prep)>>]
    /\ UNCHANGED <<now, dataVars, validatorVars, cycle_count, last_daily_update,
                   last_weekly_retrain, max_cycles, pc, stop_reason, restarts>>

\* WeeklyRetrainer(): __init__ and _load_history over the log on disk
NewRetrainer ==
    /\ pc = "retrainer"
    /\ restarts < MaxRestarts
    /\ restarts' = restarts + 1
    /\ last_retrain_date' = load_history(retraining_log)
    /\ model_performance_history' = << >>
    /\ obs' = FreshObs
    /\ UNCHANGED <<now, dataVars, retraining_log, sched_obs, validatorVars,
                   cycle_count, last_daily_update, last_weekly_retrain,
                   max_cycles, pc, stop_reason, hist>>

TimePasses ==
    /\ pc = "retrainer"
    /\ \E d \in SleepTicks : now + d <= MaxTime /\ now' = now + d
    /\ UNCHANGED <<dataVars, retrainerVars, validatorVars, botVars>>

NextRetrainer == RetrainModelCall \/ NewRetrainer \/ TimePasses

SpecRetrainer == InitRetrainer /\ [][NextRetrainer]_vars


\* ------------------------------------------------------------ properties
Count(calls, step, statuses) ==
    Cardinality({i \in 1..Len(calls) :
                    calls[i].step = step /\ calls[i].status \in statuses})
AnyStatus == {"success", "failed", "skipped"}
CycleCompleted == pc = "check_max_cycles" /\ ~obs.error
IsPrefix(s, t) == Len(s) <= Len(t) /\ SubSeq(t, 1, Len(s)) = s

\* C1 (SpecData). Window capacity: once an ingest has written the dataset,
\* the persisted window never holds more than window_days rows, whatever
\* dataset the updater started from.
WindowCapacity == update_obs.written => Len(data_file.rows) <= WindowDays

\* an ingest trimmed rows away and left a full window
WindowCapacityWitness ==
    /\ update_obs.success
    /\ update_obs.removed > 0
    /\ Len(data_file.rows) = WindowDays

\* C2 (SpecData). Date ordering: once an ingest has written the dataset, its
\* dates are unique and strictly increasing, the first ingest included.
DateOrdering == update_obs.written => IsSortedUnique(data_file.rows)

\* C3 (Spec). Self-healing is independent of the 7-day gate: no call of the
\* self-healing step is answered with a `skipped` record.
SelfHealNeverSkipped ==
    \A i \in 1..Len(obs.calls) :
        obs.calls[i].step = "self_heal" => obs.calls[i].status # "skipped"

\* C4 (SpecRetrainer). last_retrain_date is the timestamp of the most recent
\* successful retrain, or None when there was none, across retrain calls and
\* newly constructed retrainers (stated for the runs in which every append
\* to the log went through).
TimestampIsLastSuccess ==
    hist.all_logged => last_retrain_date = hist.last_success

\* C5 (Spec). Reset semantics: after the reset_metrics() of a cycle,
\* recent_accuracy is 1.0, the history is empty and needs_retraining() is false.
ResetSemantics ==
    obs.resets > 0 =>
        /\ recent_accuracy = InitialAccuracy
        /\ performance_history = << >>
        /\ ~needs_retraining(recent_accuracy)

\* C6 (Spec). reset_metrics() runs once for each self-healing retrain that
\* returned `success` and for nothing else, and a self-healing retrain that
\* did not succeed leaves recent_accuracy and the history as they were.
ResetOnlyOnSuccessfulHeal ==
    /\ [](obs.resets = Count(obs.calls, "self_heal", {"success"}))
    /\ [][(pc = "self_heal" /\ pc' = "execute_strategy"
             /\ Last(obs'.calls).status # "success")
            => UNCHANGED validatorVars]_vars

\* a weekly retrain failed without a reset and the self-heal of the same
\* cycle succeeded with one
ResetOnlyOnSuccessfulHealWitness ==
    /\ obs.resets = 1
    /\ Count(obs.calls, "self_heal", {"success"}) = 1
    /\ Count(obs.calls, "weekly", {"failed"}) = 1
    /\ performance_history = << >>
    /\ pc = "execute_strategy"

\* C7 (Spec). Fault isolation: when a step of a cycle raises, the loop is at
\* its max-cycle check next and has not stopped.
FaultIsolation ==
    [][(obs'.error /\ ~obs.error)
         => (pc' = "check_max_cycles" /\ stop_reason' = "none")]_vars

\* a cycle after the one that raised has generated its signals normally
FaultIsolationWitness ==
    /\ hist.fault_cycle > 0
    /\ cycle_count > hist.fault_cycle
    /\ obs.signals
    /\ CycleCompleted

\* C8 (Spec), as stated. A cycle started with recent_accuracy = 0.5 makes
\* exactly one retrain attempt, before signal generation.
ExactlyOneRetrainAttempt ==
    (obs.start_accuracy = 50 /\ CycleCompleted) =>
        /\ Len(obs.calls) = 1
        /\ ~obs.calls[1].after_signals

\* C8 (Spec), amended. A cycle started with recent_accuracy = 0.5 makes every
\* retrain_model() call before signal generation: at most one from the
\* schedule check, and only when a retrain is due; one from the self-healing
\* step exactly when needs_retraining() holds after the validation pass.
RetrainCallsBeforeSignals ==
    (obs.start_accuracy = 50 /\ CycleCompleted) =>
        /\ \A i \in 1..Len(obs.calls) : ~obs.calls[i].after_signals
        /\ Count(obs.calls, "weekly", AnyStatus) <= 1
        /\ \A i \in 1..Len(obs.calls) :
              obs.calls[i].step = "weekly" => obs.calls[i].gate
        /\ obs.validated
        /\ Count(obs.calls, "self_heal", AnyStatus) = IF obs.degraded THEN 1 ELSE 0
        /\ Len(obs.calls) = Count(obs.calls, "weekly", AnyStatus)
                              + Count(obs.calls, "self_heal", AnyStatus)

\* such a cycle made two calls, one of each step
RetrainCallsBeforeSignalsWitness ==
    /\ obs.start_accuracy = 50
    /\ CycleCompleted
    /\ obs.signals
    /\ Len(obs.calls) = 2

\* C9 (SpecRetrainer). Retrain failure non-advance: a retrain_model() call
\* that finds fewer than 100 usable rows returns `failed`, leaves
\* last_retrain_date as it was, and should_retrain() is still true afterwards.
FailureDoesNotAdvance ==
    [][(hist'.calls = hist.calls + 1 /\ obs'.calls[1].prep = "insufficient")
         => /\ obs'.calls[1].status = "failed"
            /\ last_retrain_date' = last_retrain_date
            /\ should_retrain(last_retrain_date', now')]_vars

\* a retrainer with an earlier success, due again, has just failed for
\* insufficient data
FailureDoesNotAdvanceWitness ==
    /\ obs.calls # << >>
    /\ obs.calls[1].prep = "insufficient"
    /\ obs.calls[1].status = "failed"
    /\ last_retrain_date # None
    /\ should_retrain(last_retrain_date, now)

\* C10 (SpecRetrainer). One record per retrain attempt: the retraining log
\* holds one record for every retrain_model() call made so far (stated for
\* the runs in which every append to the log went through).
OneRecordPerCall == hist.all_logged => Len(retraining_log) = hist.calls

\* C11 (Spec). Append-only logs: across cycles, retrains, data updates and
\* restarts, each step leaves the retraining log and the data-update log
\* with their earlier content as a prefix.
AppendOnlyLogs ==
    [][/\ IsPrefix(retraining_log, retraining_log')
       /\ IsPrefix(update_log, update_log')]_vars

\* a restarted process has appended to both logs after the records the first
\* process left
AppendOnlyLogsWitness ==
    /\ restarts > 0
    /\ Len(retraining_log) >= 2
    /\ Len(update_log) >= 2

\* C12 (SpecData). Persist failure: an update_daily() call over a persisted
\* window whose save fails leaves the dataset file exactly as it was, returns
\* False and does not advance last_update_date.
PersistFailureKeepsWindow ==
    [][(now' = now /\ data_file.exists /\ update_obs'.save_failed)
         => /\ data_file' = data_file
            /\ ~update_obs'.success
            /\ last_update_date' = last_update_date]_vars

DataUpdateStep == pc = "check_daily_update" /\ pc' = "check_weekly_retrain"

\* C13 (Spec). Fetch failure: a data-update step whose fetch returns nothing
\* leaves the dataset file, last_daily_update and last_update_date as they
\* were, and the data-update step of the next cycle fetches again.
FetchFailureRetried ==
    [][DataUpdateStep =>
         /\ obs'.update = "no_data" =>
               /\ data_file' = data_file
               /\ last_daily_update' = last_daily_update
               /\ last_update_date' = last_update_date
         /\ hist.prev_update = "no_data" =>
               obs'.update \in {"no_data", "save_failed", "written"}]_vars

\* the cycle after a fetch that returned nothing fetched again and wrote the
\* dataset
FetchFailureRetriedWitness ==
    /\ hist.prev_update = "no_data"
    /\ obs.update = "written"
    /\ last_daily_update = Today(now)
    /\ data_file.exists

DatesOf(rows) == {rows[i].date : i \in 1..Len(rows)}
RowsOn(rows, d) == {i \in 1..Len(rows) : rows[i].date = d}

\* C15 (SpecIngest). Idempotence of ingest: for every persisted window (none
\* included) and every batch, merging and trimming the batch a second time
\* leaves the window the first merge and trim produced.
IngestIdempotent ==
    (ingest_obs.count = 2 /\ ~ingest_obs.raised)
        => data_file.rows = ingest_obs.once

TrimKeepsNewest ==
    (ingest_obs.count = 1 /\ ~ingest_obs.raised) =>
        /\ ingest_obs.merged = sort_values(ingest_obs.merged)
        /\ data_file.rows = Tail_n(sort_values(ingest_obs.merged), WindowDays)

\* C18 (SpecScheduler). Scheduler boundary: with a parsable timestamp,
\* should_retrain() answers true exactly when at least 7 whole days have
\* passed since it.
SchedulerBoundary ==
    (sched_obs.asked /\ last_retrain_date >= 0) =>
        (sched_obs.decision
            <=> now - last_retrain_date >= RetrainIntervalDays * TicksPerDay)

\* six whole days, one tick short of seven, and the answer was false
SchedulerBoundaryWitness ==
    /\ sched_obs.asked
    /\ last_retrain_date >= 0
    /\ now - last_retrain_date = RetrainIntervalDays * TicksPerDay - 1
    /\ ~sched_obs.decision
    /\ sched_obs.reason = "Not yet"

\* C19 (SpecScheduler). should_retrain() answers true with the first-retraining
\* reason when there is no timestamp, and true with the forcing reason when
\* the stored timestamp cannot be parsed (the call returns in both cases).
FirstAndForcedRetrain ==
    sched_obs.asked =>
        /\ last_retrain_date = None =>
              /\ sched_obs.decision
              /\ sched_obs.reason = "First retraining (no history)"
        /\ last_retrain_date = Corrupt =>
              /\ sched_obs.decision
              /\ sched_obs.reason = "Date parsing error, forcing retrain"

\* a retrainer constructed over a log whose last timestamp is corrupt was
\* asked and forced a retrain
FirstAndForcedRetrainWitness ==
    /\ sched_obs.asked
    /\ retraining_log # << >>
    /\ last_retrain_date = Corrupt
    /\ sched_obs.decision

RetrainModelStep == hist'.calls = hist.calls + 1

\* C21 (SpecRetrainer). Skipped retrain changes nothing: a retrain_model()
\* call made while should_retrain() is false returns a `skipped` record,
\* does not load data, train or save a model, and leaves last_retrain_date
\* and the in-memory performance history as they were.
SkippedChangesNothing ==
    [][(RetrainModelStep /\ ~should_retrain(last_retrain_date, now))
         => /\ obs'.calls[1].status = "skipped"
            /\ ~obs'.calls[1].prepared
            /\ ~obs'.calls[1].saved
            /\ last_retrain_date' = last_retrain_date
            /\ model_performance_history' = model_performance_history]_vars

\* a retrainer with a success in its history was called again too early
SkippedChangesNothingWitness ==
    /\ obs.calls # << >>
    /\ obs.calls[1].status = "skipped"
    /\ model_performance_history # << >>
    /\ last_retrain_date = hist.last_success
    /\ ~should_retrain(last_retrain_date, now)

\* C22 (SpecRetrainer). Exception containment in retrain: when loading the
\* data, training, evaluating or saving raises, retrain_model() returns a
\* `failed` record whose reason is the exception's message, appends that
\* record to the log and does not advance last_retrain_date (stated for the
\* runs in which every append to the log went through).
ExceptionContained ==
    [][(/\ RetrainModelStep
        /\ hist'.all_logged
        /\ \/ obs'.calls[1].prep = "error"
           \/ obs'.calls[1].prep = "ok" /\ obs'.calls[1].status # "success")
         => /\ obs'.calls[1].status = "failed"
            /\ obs'.calls[1].reason = "exception"
            /\ Len(retraining_log') = Len(retraining_log) + 1
            /\ Last(retraining_log').status = "failed"
            /\ Last(retraining_log').reason = "exception"
            /\ last_retrain_date' = last_retrain_date]_vars

PriorSuccesses(log, i) == {j \in 1..(i - 1) : log[j].status = "success"}
Latest(S) == CHOOSE j \in S : \A k \in S : k <= j

\* C23 (SpecRetrainer). Improvement: every `success` record of the log carries
\* its test_accuracy minus the test_accuracy of the success record before it,
\* whichever process wrote that one, and None only when there is none before
\* it (stated for the runs in which every append to the log went through).
ImprovementFromPreviousSuccess ==
    hist.all_logged =>
        \A i \in 1..Len(retraining_log) :
            retraining_log[i].status = "success" =>
                retraining_log[i].improvement =
                    IF PriorSuccesses(retraining_log, i) = {} THEN None
                    ELSE retraining_log[i].test_accuracy
                           - retraining_log[Latest(PriorSuccesses(retraining_log, i))].test_accuracy

ValidationStep == valid_obs'.validations = valid_obs.validations + 1

\* C24 (SpecValidator). Validation failure is neutral: a
\* validate_recent_performance() call that fails leaves recent_accuracy and
\* the history as they were, so needs_retraining() is not turned from false
\* to true by it.
ValidationFailureNeutral ==
    [][(ValidationStep /\ valid_obs'.last = "failed")
         => /\ recent_accuracy' = recent_accuracy
            /\ performance_history' = performance_history
            /\ needs_retraining(recent_accuracy')
                  => needs_retraining(recent_accuracy)]_vars

\* a validator that had computed 0.8 kept it through a failed validation
ValidationFailureNeutralWitness ==
    /\ valid_obs.last = "failed"
    /\ valid_obs.validations = 2
    /\ recent_accuracy = 80
    /\ performance_history = <<80>>

\* C25 (SpecValidator). needs_retraining() answers true exactly when
\* recent_accuracy is strictly below the threshold (equality gives false),
\* and the call changes neither recent_accuracy nor the history.
NeedsRetrainingStrict ==
    /\ [](valid_obs.asked => (valid_obs.answer <=> recent_accuracy < threshold))
    /\ [][(valid_obs'.asked /\ ~valid_obs.asked)
            => /\ recent_accuracy' = recent_accuracy
               /\ performance_history' = performance_history]_vars

\* asked at an accuracy equal to the threshold, the answer was false
NeedsRetrainingStrictWitness ==
    /\ valid_obs.asked
    /\ recent_accuracy = threshold
    /\ ~valid_obs.answer

\* C26 (Spec). Termination causes: the autonomous loop stops only because
\* of an external interrupt or because the configured maximum cycle count was
\* reached; no exception raised inside the loop ends it.
StopsOnlyOnInterruptOrLimit ==
    stop_reason \in {"none", "interrupt", "max_cycles"}

\* C27 (Spec). Final summary: on every path by which run_autonomous_loop
\* ends, an interrupt at any point included, the final summary has been
\* emitted exactly once when the function is left.
FinalSummaryExactlyOnce ==
    pc = "done" => hist.summaries = 1

\* C28 (Spec). Maximum cycle count: with a non-null max_cycles N, 0
\* included, no more than N cycles are executed.
NoMoreThanMaxCycles ==
    max_cycles # None => cycle_count <= max_cycles

InFlightSteps == {"check_daily_update", "check_weekly_retrain",
                  "validate_performance", "self_heal", "execute_strategy"}

\* C29 (Spec). Cancellation only at cycle boundaries: an interrupt does not
\* take effect while a cycle step is in flight; the loop is stopped by it
\* only at the top of a cycle, at the max-cycle check or in the sleep.
InterruptOnlyAtCycleBoundary ==
    [][(stop_reason' = "interrupt" /\ stop_reason # "interrupt")
         => pc \notin InFlightSteps]_vars

\* C30 (Spec). No retry within a cycle: once a retrain attempt of the cycle
\* has failed, every later retrain_model() call of the same cycle returns
\* without attempting anything.
NoRetryWithinCycle ==
    \A i, j \in DOMAIN obs.calls :
        (i < j /\ obs.calls[i].status = "failed")
            => obs.calls[j].status = "skipped"

\* C31 (Spec). Cycle step order: in a cycle that raises no exception the
\* steps run in the order data-update check, retrain-schedule check,
\* performance validation, self-heal retrain exactly when needs_retraining(),
\* signal generation, and the sleep comes only after them; each step is
\* entered once per cycle and no retrain call of a cycle comes after its
\* signal generation.
CycleStepOrder ==
    /\ [][pc' # pc =>
            \/ /\ pc = "loop_top"
               /\ pc' = "check_daily_update"
               /\ cycle_count' = cycle_count + 1
            \/ /\ cycle_count' = cycle_count
               /\ \/ pc = "check_daily_update" /\ pc' = "check_weekly_retrain"
                  \/ pc = "check_weekly_retrain" /\ pc' = "validate_performance"
                  \/ /\ pc = "validate_performance"
                     /\ pc' = IF needs_retraining(recent_accuracy')
                              THEN "self_heal" ELSE "execute_strategy"
                  \/ pc = "self_heal" /\ pc' = "execute_strategy"
                  \/ pc = "execute_strategy" /\ pc' = "check_max_cycles"
                  \/ pc = "check_max_cycles" /\ pc' = "sleep"
                  \/ pc = "sleep" /\ pc' = "loop_top"
                  \/ obs'.error /\ pc' = "check_max_cycles"
            \/ pc' = "done"
            \/ pc = "done"]_vars
    /\ [](\A i \in DOMAIN obs.calls : ~obs.calls[i].after_signals)
    /\ []((pc = "sleep" /\ ~obs.error)
            => /\ obs.update # "none"
               /\ obs.validated
               /\ obs.signals
               /\ Count(obs.calls, "self_heal", AnyStatus)
                    = IF obs.degraded THEN 1 ELSE 0)

\* an exception-free cycle with both a scheduled and a self-healing retrain
\* call has reached the sleep
CycleStepOrderWitness ==
    /\ pc = "sleep"
    /\ ~obs.error
    /\ obs.signals
    /\ Len(obs.calls) = 2
    /\ obs.calls[1].step = "weekly"
    /\ obs.calls[2].step = "self_heal"

\* C32 (SpecValidator). Validation result: a validation pass that does not
\* fail sets recent_accuracy to correct / K, K the validation sample size
\* (10), and appends exactly that value to the history, also when the
\* dataset has fewer than K rows.
AccuracyIsCorrectOverK ==
    valid_obs.last = "completed"
        => /\ recent_accuracy * ValidationSampleSize = valid_obs.correct * 100
           /\ performance_history # << >>
           /\ Last(performance_history) = recent_accuracy

\* C33 (SpecRetrainer). Within one process a retrain_model() call succeeds
\* only if should_retrain() was true when it started, and any two
\* consecutive successful retrains of the process have timestamps at least
\* 7 whole days apart.
SuccessOnlyWhenDue ==
    /\ [][(RetrainModelStep /\ obs'.calls[1].status = "success")
            => should_retrain(last_retrain_date, now)]_vars
    /\ [](\A i \in 1..(Len(model_performance_history) - 1) :
            (model_performance_history[i + 1].timestamp
               - model_performance_history[i].timestamp) \div TicksPerDay
                 >= RetrainIntervalDays)

\* one process has retrained successfully twice
SuccessOnlyWhenDueWitness ==
    /\ Len(model_performance_history) = 2
    /\ model_performance_history[1].status = "success"
    /\ model_performance_history[2].status = "success"
    /\ last_retrain_date = model_performance_history[2].timestamp

\* C34 (Spec). No stale degradation signal: once a self-healing retrain has
\* succeeded, a later cycle enters the self-healing step only if a
\* validation pass has completed since that retrain (and computed an
\* accuracy below the threshold).
NoStaleDegradationSignal ==
    [][(pc = "validate_performance" /\ pc' = "self_heal")
         => /\ ~hist'.stale_signal
            /\ needs_retraining(recent_accuracy')]_vars

\* C35 (SpecRetrainer). Durable timestamp: whenever a retrain_model() call
\* advances the in-memory last_retrain_date, the retraining log ends with the
\* matching `success` record afterwards, also when the append fails, so a
\* retrainer constructed next would load the same timestamp.
DurableTimestamp ==
    [][(RetrainModelStep /\ last_retrain_date' # last_retrain_date)
         => /\ retraining_log' # << >>
            /\ Last(retraining_log').status = "success"
            /\ Last(retraining_log').timestamp = last_retrain_date'
            /\ load_history(retraining_log') = last_retrain_date']_vars

\* C36 (Spec). last_weekly_retrain is at every cycle boundary the calendar
\* date of the most recent successful retrain of this process, scheduled or
\* self-healing, and null when none has succeeded.
LastWeeklyRetrainIsLastSuccess ==
    pc \in {"loop_top", "check_max_cycles", "sleep"} =>
        last_weekly_retrain =
            IF model_performance_history = << >> THEN None
            ELSE Today(Last(model_performance_history).timestamp)

\* C37 (Spec). Marker agreement: whenever the update_daily() call of a
\* data-update step returns success, last_daily_update and last_update_date
\* hold the same date afterwards, wherever midnight falls between the two
\* reads of the clock.
MarkerAgreement ==
    [][(DataUpdateStep /\ obs'.update = "written")
         => last_daily_update' = last_update_date']_vars

\* C38 (SpecData). A daily update reports success only if the fetched rows
\* were merged: after a successful update_daily() every fetched date that is
\* not older than the oldest date of the persisted window is in the window,
\* also when the merge step raised internally.
SuccessMeansMerged ==
    update_obs.success => update_obs.unmerged = {}

\* C39 (SpecValidator). Validator consistency: in every state of a validator
\* between two calls, a non-empty history ends with recent_accuracy, and the
\* history is as long as the number of validation passes that completed
\* since the last reset_metrics() (or since construction).
ValidatorConsistency ==
    /\ performance_history # << >>
         => Last(performance_history) = recent_accuracy
    /\ Len(performance_history) = valid_obs.completed

\* two validation passes with different results have completed since the
\* last reset
ValidatorConsistencyWitness ==
    /\ valid_obs.completed = 2
    /\ Len(performance_history) = 2
    /\ performance_history[1] # performance_history[2]
    /\ recent_accuracy = performance_history[2]

====
